---- MODULE Spec2Model ----
(***************************************************************************)
(* Conversation / message data-access layer of the messenger backend.     *)
(*                                                                         *)
(* The store is the two Cassandra tables of scripts/setup_db.py: `users`   *)
(* (user_id -> map peer -> conversation id) and `conversations` (message   *)
(* rows, primary key (conversation_id, created_at, message_id)).  Every    *)
(* handler of app/models/cassandra_models.py is a sequence of storage      *)
(* calls; Step executes the storage call a handler is positioned at, Run   *)
(* executes a handler to its end.  Spec interleaves the steps of several   *)
(* requests and lets any storage call fail; SeqSpec runs the handlers one  *)
(* at a time with no storage failure.                                      *)
(***************************************************************************)
EXTENDS Integers, Sequences, FiniteSets, TLC

VARIABLES users, messages, now, procs, last

vars == <<users, messages, now, procs, last>>

----------------------------------------------------------------------------
(* Bounds of the model *)

MaxUser == 2
MaxCid == 2
MaxMsgs == 3
MaxSends == 2
MaxTime == 3
MaxPage == 2
MaxLimit == 2
NumProcs == 2

Users == 1..MaxUser
\* the values of int(uuid.uuid4().int & ((1 << 31) - 1)), scaled to 0..MaxCid
CIds == 0..MaxCid
Times == 1..MaxTime
Procs == 1..NumProcs

\* Python's None, and a map key that is absent
None == -1

\* Python truthiness of an Optional[int]: None and 0 are both falsy
Truthy(x) == x # None /\ x # 0

----------------------------------------------------------------------------
(* The two tables and the CQL statements the handlers execute *)

\* users.conversations of every user: no entry is written None
EmptyMap == [v \in Users |-> None]

\* SELECT conversations FROM users WHERE user_id = u: the map, falsy when empty
MapIsEmpty(map) == \A v \in Users : map[v] = None

\* sender_data[0]['conversations'].get(receiver_id) behind the emptiness test
MapGet(u, sender_id, receiver_id) ==
    IF MapIsEmpty(u[sender_id]) THEN None ELSE u[sender_id][receiver_id]

\* variant: UPDATE users SET conversations = {key: cid} replaces the whole map
MapPutReplace(u, row, key, cid) ==
    [u EXCEPT ![row] = [EmptyMap EXCEPT ![key] = cid]]

\* UPDATE users SET conversations[key] = cid WHERE user_id = row
MapPut(u, row, key, cid) ==
    [u EXCEPT ![row][key] = cid]

\* a row of the conversations table
Row(cid, at, mid, s, r, c) ==
    [conversation_id |-> cid, created_at |-> at, message_id |-> mid,
     sender_id |-> s, receiver_id |-> r, content |-> c]

\* INSERT INTO conversations: an upsert on the primary key
SameKey(a, b) ==
    /\ a.conversation_id = b.conversation_id
    /\ a.created_at = b.created_at
    /\ a.message_id = b.message_id

InsertRow(m, row) ==
    {x \in m : ~SameKey(x, row)} \cup {row}

\* WHERE conversation_id = c
Partition(m, c) == {x \in m : x.conversation_id = c}

\* variant: created_at ascending
BeforeMut(a, b) ==
    \/ a.created_at < b.created_at
    \/ a.created_at = b.created_at /\ a.message_id > b.message_id

\* CLUSTERING ORDER BY (created_at DESC, message_id DESC): a comes before b
Before(a, b) ==
    \/ a.created_at > b.created_at
    \/ a.created_at = b.created_at /\ a.message_id > b.message_id

First(S) == CHOOSE x \in S : \A y \in S \ {x} : Before(x, y)

RECURSIVE Ordered(_)
Ordered(S) ==
    IF S = {} THEN <<>> ELSE <<First(S)>> \o Ordered(S \ {First(S)})

\* variant: pages numbered from 0
OffsetMut(page, limit) == page * limit

\* offset = (page - 1) * limit
Offset(page, limit) == (page - 1) * limit

Min(a, b) == IF a < b THEN a ELSE b

\* LIMIT limit OFFSET offset over an ordered result
LimitOffset(seq, limit, offset) ==
    SubSeq(seq, offset + 1, Min(offset + limit, Len(seq)))

\* variant: the bound is inclusive
OlderThanMut(m, c, before) ==
    {x \in Partition(m, c) : x.created_at <= before}

\* AND created_at < before_timestamp
OlderThan(m, c, before) ==
    {x \in Partition(m, c) : x.created_at < before}

----------------------------------------------------------------------------
(* Exceptions: str(e) as the fragments it is built from *)

\* texts a failed cassandra_client.execute may carry
StorageErrors ==
    {"Operation timed out", "Matching prepared statement not found on this node"}

\* the fragments x for which "not found" in x.lower()
ContainsNotFound ==
    {"Conversation not found", "Conversation participants not found",
     "Conversation receiver not found",
     "Matching prepared statement not found on this node"}

\* "not found" in str(e).lower()
NotFoundIn(error) == \E i \in DOMAIN error : error[i] \in ContainsNotFound

----------------------------------------------------------------------------
(* A request: the handler's arguments, locals and position *)

Idle ==
    [pc |-> "idle", op |-> "none",
     sender_id |-> None, receiver_id |-> None, content |-> "",
     conversation_id |-> None, given |-> None, user_id |-> None,
     page |-> None, limit |-> None, before_timestamp |-> None,
     total_count |-> None, data |-> <<>>, todo |-> <<>>,
     minted |-> 0, fault |-> "none", error |-> <<>>,
     status_code |-> 0, ret |-> None]

Finished(loc) == loc.pc \in {"done", "error"}

\* except Exception as e: raise Exception(f"<prefix>{str(e)}")
Raise(loc, prefix, text) ==
    [loc EXCEPT !.pc = "error", !.error = <<prefix, text>>]

\* the storage call at loc.pc raises; fault records which call it was
Fail(loc, prefix, text) ==
    [Raise(loc, prefix, text) EXCEPT !.fault = loc.pc]

Out(u, m, loc) == [users |-> u, messages |-> m, loc |-> loc]

\* the random and external values one storage call may consume
Rnd(cid, mid, user, text) == [cid |-> cid, mid |-> mid, user |-> user, text |-> text]

----------------------------------------------------------------------------
(* MessageModel.create_message *)

create_message(sender_id, receiver_id, content, conversation_id) ==
    [Idle EXCEPT !.op = "create_message",
                 !.sender_id = sender_id, !.receiver_id = receiver_id,
                 !.content = content, !.conversation_id = conversation_id,
                 !.given = conversation_id,
                 !.pc = IF ~Truthy(conversation_id)
                        THEN "cm_select_users" ELSE "cm_insert"]

\* the id generator: a fresh id is taken as drawn
NewConversationId(loc, cid) ==
    [loc EXCEPT !.conversation_id = cid, !.minted = loc.minted + 1]

cm_select_users(u, m, loc, rnd, fail) ==
    LET found == MapGet(u, loc.sender_id, loc.receiver_id) IN
    IF fail THEN Out(u, m, Fail(loc, "Failed to create message: ", rnd.text))
    ELSE IF Truthy(found)
    THEN Out(u, m, [loc EXCEPT !.conversation_id = found, !.pc = "cm_insert"])
    ELSE Out(u, m, [NewConversationId(loc, rnd.cid) EXCEPT !.pc = "cm_update_sender"])

cm_update_sender(u, m, loc, rnd, fail) ==
    IF fail THEN Out(u, m, Fail(loc, "Failed to create message: ", rnd.text))
    ELSE Out(MapPut(u, loc.sender_id, loc.receiver_id, loc.conversation_id), m,
             [loc EXCEPT !.pc = "cm_update_receiver"])

\* variant: the receiver's row is written under the receiver's own key
cm_update_receiver_swapped(u, m, loc, rnd, fail) ==
    IF fail THEN Out(u, m, Fail(loc, "Failed to create message: ", rnd.text))
    ELSE Out(MapPut(u, loc.receiver_id, loc.receiver_id, loc.conversation_id), m,
             [loc EXCEPT !.pc = "cm_insert"])

cm_update_receiver(u, m, loc, rnd, fail) ==
    IF fail THEN Out(u, m, Fail(loc, "Failed to create message: ", rnd.text))
    ELSE Out(MapPut(u, loc.receiver_id, loc.sender_id, loc.conversation_id), m,
             [loc EXCEPT !.pc = "cm_insert"])

\* variant: the row is stored under the id the sender's map holds at insert time
cm_insert_reread(u, m, t, loc, rnd, fail) ==
    LET row == Row(MapGet(u, loc.sender_id, loc.receiver_id), t, rnd.mid,
                   loc.sender_id, loc.receiver_id, loc.content) IN
    IF fail THEN Out(u, m, Fail(loc, "Failed to create message: ", rnd.text))
    ELSE Out(u, InsertRow(m, row), [loc EXCEPT !.pc = "done", !.ret = row])

cm_insert(u, m, t, loc, rnd, fail) ==
    LET row == Row(loc.conversation_id, t, rnd.mid,
                   loc.sender_id, loc.receiver_id, loc.content) IN
    IF fail THEN Out(u, m, Fail(loc, "Failed to create message: ", rnd.text))
    ELSE Out(u, InsertRow(m, row), [loc EXCEPT !.pc = "done", !.ret = row])

----------------------------------------------------------------------------
(* ConversationModel.create_or_get_conversation *)

create_or_get_conversation(sender_id, receiver_id) ==
    [Idle EXCEPT !.op = "create_or_get_conversation",
                 !.sender_id = sender_id, !.receiver_id = receiver_id,
                 !.pc = "cog_select_users"]

cog_select_users(u, m, loc, rnd, fail) ==
    LET found == MapGet(u, loc.sender_id, loc.receiver_id) IN
    IF fail
    THEN Out(u, m, Fail(loc, "Failed to create or get conversation: ", rnd.text))
    ELSE IF Truthy(found)
    THEN Out(u, m, [loc EXCEPT !.conversation_id = found, !.pc = "done",
                               !.ret = found])
    ELSE Out(u, m, [NewConversationId(loc, rnd.cid) EXCEPT !.pc = "cog_update_sender"])

\* variant: the sender's entry is written only once the receiver's is
cog_update_sender_deferred(u, m, loc, rnd, fail) ==
    IF fail
    THEN Out(u, m, Fail(loc, "Failed to create or get conversation: ", rnd.text))
    ELSE Out(u, m, [loc EXCEPT !.pc = "cog_update_receiver"])

cog_update_sender(u, m, loc, rnd, fail) ==
    IF fail
    THEN Out(u, m, Fail(loc, "Failed to create or get conversation: ", rnd.text))
    ELSE Out(MapPut(u, loc.sender_id, loc.receiver_id, loc.conversation_id), m,
             [loc EXCEPT !.pc = "cog_update_receiver"])

\* variant: the second write is skipped
cog_update_receiver_skipped(u, m, loc, rnd, fail) ==
    IF fail
    THEN Out(u, m, Fail(loc, "Failed to create or get conversation: ", rnd.text))
    ELSE Out(u, m, [loc EXCEPT !.pc = "done", !.ret = loc.conversation_id])

cog_update_receiver(u, m, loc, rnd, fail) ==
    IF fail
    THEN Out(u, m, Fail(loc, "Failed to create or get conversation: ", rnd.text))
    ELSE Out(MapPut(u, loc.receiver_id, loc.sender_id, loc.conversation_id), m,
             [loc EXCEPT !.pc = "done", !.ret = loc.conversation_id])

----------------------------------------------------------------------------
(* MessageModel.get_conversation_messages *)

\* PaginatedMessageResponse / PaginatedConversationResponse
Page(total, page, limit, data) ==
    [total |-> total, page |-> page, limit |-> limit, data |-> data]

get_conversation_messages(conversation_id, page, limit) ==
    [Idle EXCEPT !.op = "get_conversation_messages",
                 !.conversation_id = conversation_id,
                 !.page = page, !.limit = limit, !.pc = "gcm_count"]

\* SELECT COUNT(*) ... WHERE conversation_id = c
gcm_count(u, m, loc, rnd, fail) ==
    IF fail
    THEN Out(u, m, Fail(loc, "Failed to get conversation messages: ", rnd.text))
    ELSE Out(u, m, [loc EXCEPT !.total_count =
                                  Cardinality(Partition(m, loc.conversation_id)),
                               !.pc = "gcm_select"])

\* SELECT * ... ORDER BY created_at DESC, message_id DESC LIMIT l OFFSET o
gcm_select(u, m, loc, rnd, fail) ==
    LET rows == LimitOffset(Ordered(Partition(m, loc.conversation_id)),
                            loc.limit, Offset(loc.page, loc.limit)) IN
    IF fail
    THEN Out(u, m, Fail(loc, "Failed to get conversation messages: ", rnd.text))
    ELSE Out(u, m, [loc EXCEPT !.pc = "done", !.data = rows,
                               !.ret = Page(loc.total_count, loc.page,
                                            loc.limit, rows)])

----------------------------------------------------------------------------
(* MessageModel.get_messages_before_timestamp *)

get_messages_before_timestamp(conversation_id, before_timestamp, page, limit) ==
    [Idle EXCEPT !.op = "get_messages_before_timestamp",
                 !.conversation_id = conversation_id,
                 !.before_timestamp = before_timestamp,
                 !.page = page, !.limit = limit, !.pc = "gmb_count"]

gmb_count(u, m, loc, rnd, fail) ==
    IF fail
    THEN Out(u, m, Fail(loc, "Failed to get messages before timestamp: ", rnd.text))
    ELSE Out(u, m, [loc EXCEPT !.total_count =
                                  Cardinality(OlderThan(m, loc.conversation_id,
                                                        loc.before_timestamp)),
                               !.pc = "gmb_select"])

gmb_select(u, m, loc, rnd, fail) ==
    LET rows == LimitOffset(Ordered(OlderThan(m, loc.conversation_id,
                                              loc.before_timestamp)),
                            loc.limit, Offset(loc.page, loc.limit)) IN
    IF fail
    THEN Out(u, m, Fail(loc, "Failed to get messages before timestamp: ", rnd.text))
    ELSE Out(u, m, [loc EXCEPT !.pc = "done", !.data = rows,
                               !.ret = Page(loc.total_count, loc.page,
                                            loc.limit, rows)])

----------------------------------------------------------------------------
(* ConversationModel.get_user_conversations *)

\* ConversationResponse
Conversation(id, user1_id, user2_id, msg) ==
    [id |-> id, user1_id |-> user1_id, user2_id |-> user2_id,
     last_message_at |-> msg.created_at, last_message_content |-> msg.content]

\* list(conversations_map.items()): a Cassandra map is read in key order
RECURSIVE ItemsFrom(_, _)
ItemsFrom(map, k) ==
    IF k > MaxUser THEN <<>>
    ELSE (IF map[k] = None THEN <<>> ELSE << <<k, map[k]>> >>)
         \o ItemsFrom(map, k + 1)

Items(map) == ItemsFrom(map, 1)

\* variant: ORDER BY created_at ASC, message_id ASC LIMIT 1
LatestOldest(m, c) ==
    LET rows == Ordered(Partition(m, c)) IN
    IF rows = <<>> THEN <<>> ELSE <<rows[Len(rows)]>>

\* SELECT * ... ORDER BY created_at DESC, message_id DESC LIMIT 1
Latest(m, c) == LimitOffset(Ordered(Partition(m, c)), 1, 0)

get_user_conversations(user_id, page, limit) ==
    [Idle EXCEPT !.op = "get_user_conversations", !.user_id = user_id,
                 !.page = page, !.limit = limit, !.pc = "guc_select_users"]

\* variant: the emptiness test is missing, and len() of the absent map raises
guc_select_users_unguarded(u, m, loc, rnd, fail) ==
    LET items == Items(u[loc.user_id])
        total == Len(items)
        offset == Offset(loc.page, loc.limit)
        end == Min(offset + loc.limit, total)
        slice == SubSeq(items, offset + 1, end)
    IN
    IF fail
    THEN Out(u, m, Fail(loc, "Failed to get user conversations: ", rnd.text))
    ELSE IF MapIsEmpty(u[loc.user_id])
    THEN Out(u, m, Raise(loc, "Failed to get user conversations: ",
                         "object of type 'NoneType' has no len()"))
    ELSE IF slice = <<>>
    THEN Out(u, m, [loc EXCEPT !.pc = "done", !.total_count = total,
                               !.ret = Page(total, loc.page, loc.limit, <<>>)])
    ELSE Out(u, m, [loc EXCEPT !.pc = "guc_latest", !.total_count = total,
                               !.todo = slice])

guc_select_users(u, m, loc, rnd, fail) ==
    LET items == Items(u[loc.user_id])
        total == Len(items)
        offset == Offset(loc.page, loc.limit)
        end == Min(offset + loc.limit, total)
        slice == SubSeq(items, offset + 1, end)
    IN
    IF fail
    THEN Out(u, m, Fail(loc, "Failed to get user conversations: ", rnd.text))
    ELSE IF MapIsEmpty(u[loc.user_id])
    THEN Out(u, m, [loc EXCEPT !.pc = "done",
                               !.ret = Page(0, loc.page, loc.limit, <<>>)])
    ELSE IF slice = <<>>
    THEN Out(u, m, [loc EXCEPT !.pc = "done", !.total_count = total,
                               !.ret = Page(total, loc.page, loc.limit, <<>>)])
    ELSE Out(u, m, [loc EXCEPT !.pc = "guc_latest", !.total_count = total,
                               !.todo = slice])

\* one turn of the loop over the selected map entries
\* variant: the loop ends at the first entry whose partition is empty
guc_latest_break(u, m, loc, rnd, fail) ==
    LET receiver_id == loc.todo[1][1]
        conversation_id == loc.todo[1][2]
        message == Latest(m, conversation_id)
        data == IF message # <<>>
                THEN Append(loc.data, Conversation(conversation_id, loc.user_id,
                                                   receiver_id, message[1]))
                ELSE loc.data
        rest == IF message # <<>> THEN Tail(loc.todo) ELSE <<>>
    IN
    IF fail
    THEN Out(u, m, Fail(loc, "Failed to get user conversations: ", rnd.text))
    ELSE IF rest = <<>>
    THEN Out(u, m, [loc EXCEPT !.pc = "done", !.todo = rest, !.data = data,
                               !.ret = Page(loc.total_count, loc.page,
                                            loc.limit, data)])
    ELSE Out(u, m, [loc EXCEPT !.todo = rest, !.data = data])

guc_latest(u, m, loc, rnd, fail) ==
    LET receiver_id == loc.todo[1][1]
        conversation_id == loc.todo[1][2]
        message == Latest(m, conversation_id)
        data == IF message # <<>>
                THEN Append(loc.data, Conversation(conversation_id, loc.user_id,
                                                   receiver_id, message[1]))
                ELSE loc.data
        rest == Tail(loc.todo)
    IN
    IF fail
    THEN Out(u, m, Fail(loc, "Failed to get user conversations: ", rnd.text))
    ELSE IF rest = <<>>
    THEN Out(u, m, [loc EXCEPT !.pc = "done", !.todo = rest, !.data = data,
                               !.ret = Page(loc.total_count, loc.page,
                                            loc.limit, data)])
    ELSE Out(u, m, [loc EXCEPT !.todo = rest, !.data = data])

----------------------------------------------------------------------------
(* ConversationModel.get_conversation *)

get_conversation(conversation_id) ==
    [Idle EXCEPT !.op = "get_conversation",
                 !.conversation_id = conversation_id, !.pc = "gc_latest"]

gc_latest(u, m, loc, rnd, fail) ==
    LET message == Latest(m, loc.conversation_id) IN
    IF fail THEN Out(u, m, Fail(loc, "Failed to get conversation: ", rnd.text))
    ELSE IF message = <<>>
    THEN Out(u, m, Raise(loc, "Failed to get conversation: ",
                         "Conversation not found"))
    ELSE Out(u, m, [loc EXCEPT !.data = message, !.pc = "gc_contains"])

\* WHERE conversations CONTAINS c: the user rows whose map holds c as a value
Containing(u, c) == {x \in Users : \E v \in Users : u[x][v] = c}

\* for rid, cid in conversations_map.items(): if cid == conversation_id: break
RECURSIVE FindReceiver(_, _)
FindReceiver(items, c) ==
    IF items = <<>> THEN None
    ELSE IF items[1][2] = c THEN items[1][1]
    ELSE FindReceiver(Tail(items), c)

\* LIMIT 1 returns one matching row: rnd.user when it is one of them
gc_contains(u, m, loc, rnd, fail) ==
    LET rows == Containing(u, loc.conversation_id)
        sender_id == rnd.user
        receiver_id == FindReceiver(Items(u[sender_id]), loc.conversation_id)
    IN
    IF fail THEN Out(u, m, Fail(loc, "Failed to get conversation: ", rnd.text))
    ELSE IF rows = {}
    THEN Out(u, m, Raise(loc, "Failed to get conversation: ",
                         "Conversation participants not found"))
    ELSE IF ~Truthy(receiver_id)
    THEN Out(u, m, Raise(loc, "Failed to get conversation: ",
                         "Conversation receiver not found"))
    ELSE Out(u, m, [loc EXCEPT !.pc = "done", !.sender_id = sender_id,
                               !.receiver_id = receiver_id,
                               !.ret = Conversation(loc.conversation_id, sender_id,
                                                    receiver_id, loc.data[1])])

----------------------------------------------------------------------------
(* The request layer: app/controllers *)

\* the HTTP status the controller answers with
Respond(loc) ==
    [loc EXCEPT !.status_code =
        IF loc.pc = "done" THEN 200
        ELSE IF loc.op = "get_conversation" /\ NotFoundIn(loc.error) THEN 404
        ELSE 500]

----------------------------------------------------------------------------
(* Execution of a handler *)

\* the storage call at loc.pc; fail: the call raises
Step(u, m, t, loc, rnd, fail) ==
    CASE loc.pc = "cm_select_users" -> cm_select_users(u, m, loc, rnd, fail)
      [] loc.pc = "cm_update_sender" -> cm_update_sender(u, m, loc, rnd, fail)
      [] loc.pc = "cm_update_receiver" -> cm_update_receiver(u, m, loc, rnd, fail)
      [] loc.pc = "cm_insert" -> cm_insert(u, m, t, loc, rnd, fail)
      [] loc.pc = "cog_select_users" -> cog_select_users(u, m, loc, rnd, fail)
      [] loc.pc = "cog_update_sender" -> cog_update_sender(u, m, loc, rnd, fail)
      [] loc.pc = "cog_update_receiver" -> cog_update_receiver(u, m, loc, rnd, fail)
      [] loc.pc = "gcm_count" -> gcm_count(u, m, loc, rnd, fail)
      [] loc.pc = "gcm_select" -> gcm_select(u, m, loc, rnd, fail)
      [] loc.pc = "gmb_count" -> gmb_count(u, m, loc, rnd, fail)
      [] loc.pc = "gmb_select" -> gmb_select(u, m, loc, rnd, fail)
      [] loc.pc = "guc_select_users" -> guc_select_users(u, m, loc, rnd, fail)
      [] loc.pc = "guc_latest" -> guc_latest(u, m, loc, rnd, fail)
      [] loc.pc = "gc_latest" -> gc_latest(u, m, loc, rnd, fail)
      [] loc.pc = "gc_contains" -> gc_contains(u, m, loc, rnd, fail)

\* a handler run to its end; the storage call at failAt, if reached, raises
RECURSIVE Run(_, _, _, _, _, _)
Run(u, m, t, loc, rnd, failAt) ==
    IF Finished(loc) THEN Out(u, m, loc)
    ELSE LET o == Step(u, m, t, loc, rnd, loc.pc = failAt)
         IN Run(o.users, o.messages, t, o.loc, rnd, failAt)

\* the storage calls of each handler
Calls(op) ==
    CASE op = "create_message" ->
            {"cm_select_users", "cm_update_sender", "cm_update_receiver", "cm_insert"}
      [] op = "create_or_get_conversation" ->
            {"cog_select_users", "cog_update_sender", "cog_update_receiver"}
      [] op = "get_conversation_messages" -> {"gcm_count", "gcm_select"}
      [] op = "get_messages_before_timestamp" -> {"gmb_count", "gmb_select"}
      [] op = "get_user_conversations" -> {"guc_select_users", "guc_latest"}
      [] op = "get_conversation" -> {"gc_latest", "gc_contains"}

\* message ids uuid4 has not produced yet, of a pool of n
FreeIds(m, n) == (1..n) \ {x.message_id : x \in m}

OneOf(S) == IF S = {} THEN {None} ELSE S

\* the handler at loc is about to call the id generator
Mints(u, loc) ==
    /\ loc.pc \in {"cm_select_users", "cog_select_users"}
    /\ ~Truthy(MapGet(u, loc.sender_id, loc.receiver_id))

\* what the storage call at loc.pc can draw
Draws(u, m, loc, fail, n) ==
    {Rnd(cid, mid, user, text) :
        cid \in IF ~fail /\ Mints(u, loc) THEN CIds ELSE {None},
        mid \in IF ~fail /\ loc.pc = "cm_insert" THEN FreeIds(m, n) ELSE {None},
        user \in IF ~fail /\ loc.pc = "gc_contains"
                 THEN OneOf(Containing(u, loc.conversation_id)) ELSE {None},
        text \in IF fail THEN StorageErrors ELSE {""}}

\* what a whole handler can draw
RunDraws(u, m, loc, n, failAt) ==
    {Rnd(cid, mid, user, text) :
        cid \in IF Mints(u, loc) THEN CIds ELSE {None},
        mid \in IF loc.op = "create_message" THEN FreeIds(m, n) ELSE {None},
        user \in IF loc.op = "get_conversation"
                 THEN OneOf(Containing(u, loc.conversation_id)) ELSE {None},
        text \in IF failAt = "none" THEN {""} ELSE StorageErrors}

\* the conversation_id argument: absent or given
OptCIds == CIds \cup {None}
Pages == 1..MaxPage
Limits == 1..MaxLimit

Init ==
    /\ users = [x \in Users |-> EmptyMap]
    /\ messages = {}
    /\ now = 1
    /\ procs = [p \in Procs |-> Idle]
    /\ last = Idle

\* datetime.utcnow() advances
Tick ==
    /\ now < MaxTime
    /\ last = Idle
    /\ now' = now + 1
    /\ UNCHANGED <<users, messages, procs, last>>

\* one request served from start to end; its response is outstanding in last
\* until the caller takes it
Serve(loc, n, failAt) ==
    /\ last = Idle
    /\ \E rnd \in RunDraws(users, messages, loc, n, failAt) :
        LET o == Run(users, messages, now, loc, rnd, failAt) IN
        /\ users' = o.users
        /\ messages' = o.messages
        /\ last' = Respond(o.loc)
        /\ UNCHANGED <<now, procs>>

\* the caller takes the response
Deliver ==
    /\ last # Idle
    /\ last' = Idle
    /\ UNCHANGED <<users, messages, now, procs>>

----------------------------------------------------------------------------
(* SeqSpec: requests served one at a time, no storage failure *)

SendMessage ==
    /\ Cardinality(messages) < MaxSends
    /\ \E s \in Users, r \in Users, cid \in OptCIds :
           Serve(create_message(s, r, "a", cid), MaxSends, "none")

CreateOrGet ==
    \E s \in Users, r \in Users :
        Serve(create_or_get_conversation(s, r), MaxSends, "none")

GetUserConversations ==
    \E x \in Users, p \in Pages, l \in Limits :
        Serve(get_user_conversations(x, p, l), MaxSends, "none")

GetConversation == \E c \in CIds : Serve(get_conversation(c), MaxSends, "none")

SeqNext ==
    \/ SendMessage
    \/ CreateOrGet
    \/ GetUserConversations
    \/ GetConversation
    \/ Deliver

SeqSpec == Init /\ [][SeqNext]_vars

----------------------------------------------------------------------------
(* PageSpec: conversation histories written and paged through *)

SendInto ==
    /\ Cardinality(messages) < MaxMsgs
    /\ \E s \in Users, cid \in CIds \ {0} :
           \E r \in Users \ {s} : Serve(create_message(s, r, "a", cid), MaxMsgs, "none")

GetMessages ==
    \E c \in CIds, p \in Pages, l \in Limits :
        Serve(get_conversation_messages(c, p, l), MaxMsgs, "none")

GetBefore ==
    \E c \in CIds, t \in Times \cup {MaxTime + 1}, p \in Pages, l \in Limits :
        Serve(get_messages_before_timestamp(c, t, p, l), MaxMsgs, "none")

PageNext ==
    \/ Tick
    \/ SendInto
    \/ GetMessages
    \/ GetBefore
    \/ Deliver

PageSpec == Init /\ [][PageNext]_vars

----------------------------------------------------------------------------
(* FaultSpec: requests served one at a time, one storage call may fail *)

FaultySend ==
    /\ Cardinality(messages) < MaxSends
    /\ \E s \in Users, r \in Users :
           \E f \in Calls("create_message") \cup {"none"} :
               Serve(create_message(s, r, "a", None), MaxSends, f)

FaultyCreateOrGet ==
    \E s \in Users, r \in Users :
        \E f \in Calls("create_or_get_conversation") \cup {"none"} :
            Serve(create_or_get_conversation(s, r), MaxSends, f)

FaultyGetConversation ==
    \E c \in CIds :
        \E f \in Calls("get_conversation") \cup {"none"} :
            Serve(get_conversation(c), MaxSends, f)

FaultNext ==
    \/ FaultySend
    \/ FaultyCreateOrGet
    \/ FaultyGetConversation
    \/ Deliver

FaultSpec == Init /\ [][FaultNext]_vars

----------------------------------------------------------------------------
(* SummarySpec: messages of different contents sent over time and summarised *)

Contents == {"a", "b"}

SendText ==
    /\ Cardinality(messages) < MaxSends
    /\ \E s \in Users, r \in Users, c \in Contents, cid \in OptCIds :
           Serve(create_message(s, r, c, cid), MaxSends, "none")

SummaryNext ==
    \/ Tick
    \/ SendText
    \/ GetUserConversations
    \/ GetConversation
    \/ Deliver

SummarySpec == Init /\ [][SummaryNext]_vars

----------------------------------------------------------------------------

(* Spec: concurrent requests, storage call by storage call, any call may fail *)

Sending == {p \in Procs : procs[p].op = "create_message" /\ ~Finished(procs[p])}

\* a request arrives
Call(p, loc) ==
    /\ procs[p] = Idle
    /\ procs' = [procs EXCEPT ![p] = loc]
    /\ UNCHANGED <<users, messages, now, last>>

\* the storage call the request is at returns (fail = FALSE) or raises
Execute(p, op, fail) ==
    /\ procs[p].op = op
    /\ ~Finished(procs[p])
    /\ \E rnd \in Draws(users, messages, procs[p], fail, MaxSends) :
        LET o == Step(users, messages, now, procs[p], rnd, fail) IN
        /\ users' = o.users
        /\ messages' = o.messages
        /\ procs' = [procs EXCEPT ![p] = IF Finished(o.loc) THEN Respond(o.loc)
                                         ELSE o.loc]
        /\ UNCHANGED <<now, last>>

CallCreateMessage(p) ==
    /\ Cardinality(messages) + Cardinality(Sending) < MaxSends
    /\ \E s \in Users, r \in Users, cid \in OptCIds :
           Call(p, create_message(s, r, "a", cid))
StepCreateMessage(p) == Execute(p, "create_message", FALSE)
FailCreateMessage(p) == Execute(p, "create_message", TRUE)

CallCreateOrGet(p) ==
    \E s \in Users, r \in Users : Call(p, create_or_get_conversation(s, r))
StepCreateOrGet(p) == Execute(p, "create_or_get_conversation", FALSE)
FailCreateOrGet(p) == Execute(p, "create_or_get_conversation", TRUE)

CallGetMessages(p) ==
    \E c \in CIds, l \in Limits : Call(p, get_conversation_messages(c, 1, l))
StepGetMessages(p) == Execute(p, "get_conversation_messages", FALSE)
FailGetMessages(p) == Execute(p, "get_conversation_messages", TRUE)

CallGetBefore(p) ==
    \E c \in CIds, l \in Limits :
        Call(p, get_messages_before_timestamp(c, MaxTime, 1, l))
StepGetBefore(p) == Execute(p, "get_messages_before_timestamp", FALSE)
FailGetBefore(p) == Execute(p, "get_messages_before_timestamp", TRUE)

CallGetUserConversations(p) ==
    \E x \in Users, l \in Limits : Call(p, get_user_conversations(x, 1, l))
StepGetUserConversations(p) == Execute(p, "get_user_conversations", FALSE)
FailGetUserConversations(p) == Execute(p, "get_user_conversations", TRUE)

CallGetConversation(p) == \E c \in CIds : Call(p, get_conversation(c))
StepGetConversation(p) == Execute(p, "get_conversation", FALSE)
FailGetConversation(p) == Execute(p, "get_conversation", TRUE)

Next ==
    \E p \in Procs :
        \/ CallCreateMessage(p)
        \/ StepCreateMessage(p)
        \/ FailCreateMessage(p)
        \/ CallCreateOrGet(p)
        \/ StepCreateOrGet(p)
        \/ FailCreateOrGet(p)
        \/ CallGetMessages(p)
        \/ StepGetMessages(p)
        \/ FailGetMessages(p)
        \/ CallGetBefore(p)
        \/ StepGetBefore(p)
        \/ FailGetBefore(p)
        \/ CallGetUserConversations(p)
        \/ StepGetUserConversations(p)
        \/ FailGetUserConversations(p)
        \/ CallGetConversation(p)
        \/ StepGetConversation(p)
        \/ FailGetConversation(p)

Spec == Init /\ [][Next]_vars

----------------------------------------------------------------------------
(* Claims on conversation resolution, under SeqSpec *)

\* this step serves a request of operation op
Serves(op) == last = Idle /\ last'.op = op

\* C1: two create_or_get_conversation(sender, receiver) calls executed one
\* after the other, with nothing in between, return the same conversation id,
\* whatever the id generator produces: after the first call has answered, every
\* run of the second call from that state returns the first call's answer.
C1_SameIdTwice ==
    (last.op = "create_or_get_conversation" /\ last.pc = "done") =>
        LET again == create_or_get_conversation(last.sender_id, last.receiver_id) IN
        \A rnd \in RunDraws(users, messages, again, MaxSends, "none") :
            Run(users, messages, now, again, rnd, "none").loc.ret = last.ret

\* C2: a successful create_message without conversation_id between two users
\* whose maps hold no entry for each other calls the id generator once, writes
\* the new id c into both maps, inserts exactly one row, under c, and returns it.
C2_FirstMessageCreatesOne ==
    [][(/\ Serves("create_message")
        /\ last'.pc = "done"
        /\ last'.given = None
        /\ users[last'.sender_id][last'.receiver_id] = None
        /\ users[last'.receiver_id][last'.sender_id] = None)
       => LET s == last'.sender_id
              r == last'.receiver_id
              c == last'.ret.conversation_id
          IN /\ last'.minted = 1
             /\ c \in CIds
             /\ users'[s][r] = c
             /\ users'[r][s] = c
             /\ \A x \in Users, y \in Users :
                    {x, y} # {s, r} => users'[x][y] = users[x][y]
             /\ last'.ret \notin messages
             /\ messages' = messages \cup {last'.ret}
             /\ last'.ret.sender_id = s /\ last'.ret.receiver_id = r]_vars

C2_Witness ==
    /\ last.op = "create_message" /\ last.pc = "done" /\ last.given = None
    /\ last.minted = 1
    /\ last.sender_id # last.receiver_id
    /\ messages = {last.ret}
    /\ users[last.sender_id][last.receiver_id] = last.ret.conversation_id
    /\ users[last.receiver_id][last.sender_id] = last.ret.conversation_id

\* C3: once the maps hold a conversation id c for users a and b, a later
\* create_message between them without conversation_id, in either direction,
\* stores its row under c and does not call the id generator.
C3_ReusesId ==
    [][(/\ Serves("create_message")
        /\ last'.pc = "done"
        /\ last'.given = None
        /\ users[last'.sender_id][last'.receiver_id] # None
        /\ users[last'.receiver_id][last'.sender_id]
               = users[last'.sender_id][last'.receiver_id])
       => /\ last'.minted = 0
          /\ last'.ret.conversation_id = users[last'.sender_id][last'.receiver_id]
          /\ users' = users]_vars

\* C4: with requests served one at a time and no storage failure, u's map
\* holds v -> c exactly when v's map holds u -> c.
C4_MapsSymmetric ==
    \A u \in Users, v \in Users : users[u][v] = users[v][u]

C4_Witness ==
    \E u \in Users, v \in Users :
        /\ u # v
        /\ users[u][v] \in CIds
        /\ users[v][u] = users[u][v]
        /\ last.op = "create_or_get_conversation"
        /\ last.minted = 1
        /\ {last.sender_id, last.receiver_id} = {u, v}

----------------------------------------------------------------------------
(* Claims on paging, under PageSpec *)

\* reverse-chronological order as the claims state it: a is listed before b
Newer(a, b) ==
    \/ a.created_at > b.created_at
    \/ a.created_at = b.created_at /\ a.message_id > b.message_id

\* the number of rows of S listed before x
Rank(x, S) == Cardinality({y \in S : Newer(y, x)})

Range(seq) == {seq[i] : i \in DOMAIN seq}

Max(a, b) == IF a > b THEN a ELSE b

NoRnd == Rnd(None, None, None, "")

\* the response of a read served in the current state
ReadMessages(c, page, limit) ==
    Run(users, messages, now, get_conversation_messages(c, page, limit),
        NoRnd, "none").loc.ret

ReadBefore(c, t, page, limit) ==
    Run(users, messages, now, get_messages_before_timestamp(c, t, page, limit),
        NoRnd, "none").loc.ret

\* C5: get_conversation_messages(c, page, limit) returns the rows of partition
\* c at positions (page-1)*limit .. (page-1)*limit+limit-1 of the order
\* (created_at descending, message_id descending); with three messages A, B, C
\* of strictly increasing timestamps, page 1 of limit 2 is [C, B] and page 2
\* is [A].
C5_PageIsSlice ==
    (last.op = "get_conversation_messages" /\ last.pc = "done") =>
        LET part == {x \in messages : x.conversation_id = last.conversation_id}
            data == last.ret.data
            off == (last.page - 1) * last.limit
        IN /\ Len(data) = Max(0, Min(last.limit, Cardinality(part) - off))
           /\ \A i \in 1..Len(data) :
                  data[i] \in part /\ Rank(data[i], part) = off + i - 1
           /\ \A A \in part, B \in part, C \in part :
                  (/\ part = {A, B, C}
                   /\ A.created_at < B.created_at
                   /\ B.created_at < C.created_at
                   /\ last.limit = 2)
                  => /\ last.page = 1 => data = <<C, B>>
                     /\ last.page = 2 => data = <<A>>

C5_Witness ==
    /\ last.op = "get_conversation_messages" /\ last.pc = "done"
    /\ last.page = 2 /\ last.limit = 2
    /\ \E A \in messages, B \in messages, C \in messages :
           /\ {x \in messages : x.conversation_id = last.conversation_id} = {A, B, C}
           /\ A.created_at < B.created_at
           /\ B.created_at < C.created_at
           /\ A.message_id > C.message_id
           /\ last.ret.data = <<A>>

\* C6: read in one state, page 1 and page 2 of limit L hold disjoint messages,
\* page 1 followed by page 2 is page 1 of limit 2L, and the three responses
\* report the same total.
C6_PagesPartition ==
    (last.op = "get_conversation_messages" /\ last.pc = "done" /\ last.page = 1) =>
        LET p1 == last.ret
            p2 == ReadMessages(last.conversation_id, 2, last.limit)
            big == ReadMessages(last.conversation_id, 1, 2 * last.limit)
        IN /\ Range(p1.data) \cap Range(p2.data) = {}
           /\ p1.data \o p2.data = big.data
           /\ p1.total = p2.total
           /\ p2.total = big.total

C6_Witness ==
    /\ last.op = "get_conversation_messages" /\ last.pc = "done"
    /\ last.page = 1 /\ last.limit = 1
    /\ last.ret.total = 3
    /\ Len(ReadMessages(last.conversation_id, 2, 1).data) = 1
    /\ Len(ReadMessages(last.conversation_id, 1, 2).data) = 2

\* every page of get_messages_before_timestamp(c, t), one after the other
RECURSIVE BeforePages(_, _, _, _)
BeforePages(c, t, L, page) ==
    LET d == ReadBefore(c, t, page, L).data IN
    IF d = <<>> THEN <<>> ELSE d \o BeforePages(c, t, L, page + 1)

\* the unbounded listing of get_conversation_messages(c) cut to created_at < t
OlderOf(c, t) ==
    LET all == ReadMessages(c, 1, Cardinality(messages) + 1).data
        Older(x) == x.created_at < t
    IN SelectSeq(all, Older)

\* C7: the pages of get_messages_before_timestamp(c, t), read one after the
\* other, are the messages of get_conversation_messages(c) with created_at
\* strictly less than t, in the same order, and every page reports their
\* number as total.
C7_BeforeIsFilter ==
    (last.op = "get_messages_before_timestamp" /\ last.pc = "done") =>
        LET c == last.conversation_id
            t == last.before_timestamp
            L == last.limit
            older == OlderOf(c, t)
        IN /\ BeforePages(c, t, L, 1) = older
           /\ last.ret.data = ReadBefore(c, t, last.page, L).data
           /\ last.ret.total = Len(older)
           /\ \A x \in Range(last.ret.data) : x.created_at < t
           /\ \A page \in 1..(Len(older) + 1) :
                  ReadBefore(c, t, page, L).total = Len(older)

C7_Witness ==
    /\ last.op = "get_messages_before_timestamp" /\ last.pc = "done"
    /\ last.ret.data # <<>>
    /\ \E x \in messages :
           /\ x.conversation_id = last.conversation_id
           /\ x.created_at = last.before_timestamp
           /\ x \notin Range(last.ret.data)
    /\ last.ret.total = Len(OlderOf(last.conversation_id, last.before_timestamp))

----------------------------------------------------------------------------
(* Claims on concurrent sends, under Spec *)

\* requests p and q are two finished create_message calls for the same
\* unordered pair, given no conversation_id, that minted different ids
Raced(p, q) ==
    /\ p # q
    /\ procs[p].op = "create_message" /\ procs[q].op = "create_message"
    /\ procs[p].pc = "done" /\ procs[q].pc = "done"
    /\ procs[p].given = None /\ procs[q].given = None
    /\ {procs[p].sender_id, procs[p].receiver_id}
           = {procs[q].sender_id, procs[q].receiver_id}
    /\ procs[p].minted = 1 /\ procs[q].minted = 1
    /\ procs[p].conversation_id # procs[q].conversation_id

\* C8: two create_message calls for one unordered pair, started with no
\* conversation between them, can both mint: whenever they have minted
\* different ids, their two messages lie in different partitions or the two
\* users' maps point to different ids for each other.
C8_RaceSplits ==
    \A p \in Procs, q \in Procs :
        Raced(p, q) =>
            LET a == procs[p].sender_id
                b == procs[p].receiver_id
            IN /\ procs[p].ret \in messages
               /\ procs[q].ret \in messages
               /\ \/ procs[p].ret.conversation_id # procs[q].ret.conversation_id
                  \/ users[a][b] # users[b][a]

C8_Witness ==
    \E p \in Procs, q \in Procs :
        /\ Raced(p, q)
        /\ Truthy(procs[p].conversation_id) /\ Truthy(procs[q].conversation_id)
        /\ procs[p].sender_id # procs[p].receiver_id
        /\ procs[p].ret.conversation_id # procs[q].ret.conversation_id
        /\ users[procs[p].sender_id][procs[p].receiver_id]
               # users[procs[p].receiver_id][procs[p].sender_id]

----------------------------------------------------------------------------
(* Claims on storage failures, under FaultSpec *)

\* this step serves a minting request whose write to the receiver's map raises
ReceiverWriteFails ==
    /\ last = Idle
    /\ last'.fault \in {"cm_update_receiver", "cog_update_receiver"}

\* C9 as stated: when the receiver's map write fails after the sender's
\* succeeded, the operation ends in an error, the sender's entry stays, the
\* receiver's map is unchanged, the maps are asymmetric and no row is inserted.
C9_PartialWriteAsymmetric ==
    [][ReceiverWriteFails =>
        LET s == last'.sender_id
            r == last'.receiver_id
            c == last'.conversation_id
        IN /\ last'.pc = "error"
           /\ users'[s][r] = c
           /\ users'[r] = users[r]
           /\ users'[s][r] # users'[r][s]
           /\ messages' = messages]_vars

\* C9 as amended: the operation ends in an error, the only change to the
\* store is the sender's entry receiver -> c, no row is inserted; for
\* receiver # sender the receiver's map is unchanged, and the maps are
\* asymmetric unless the receiver's map already held sender -> c.
C9_PartialWriteKept ==
    [][ReceiverWriteFails =>
        LET s == last'.sender_id
            r == last'.receiver_id
            c == last'.conversation_id
        IN /\ last'.pc = "error"
           /\ last'.status_code = 500
           /\ last'.minted = 1
           /\ \A x \in Users, y \in Users :
                  users'[x][y] = IF x = s /\ y = r THEN c ELSE users[x][y]
           /\ s # r => users'[r] = users[r]
           /\ (s # r /\ users[r][s] # c) => users'[s][r] # users'[r][s]
           /\ messages' = messages]_vars

C9_Witness ==
    /\ last.pc = "error"
    /\ last.fault \in {"cm_update_receiver", "cog_update_receiver"}
    /\ last.sender_id # last.receiver_id
    /\ users[last.sender_id][last.receiver_id] = last.conversation_id
    /\ users[last.receiver_id][last.sender_id] = None
    /\ messages = {}

\* C10: get_conversation(c) on a partition with no rows is answered 404, and
\* every failure of a storage call of get_conversation is answered 500.
C10_NotFoundDistinct ==
    (last.op = "get_conversation" /\ last.pc # "idle") =>
        /\ (last.fault = "none" /\ Partition(messages, last.conversation_id) = {})
               => last.pc = "error" /\ last.status_code = 404
        /\ last.fault # "none" => last.status_code = 500

----------------------------------------------------------------------------
(* Claims on conversation listings, under SeqSpec *)

\* C11: get_user_conversations(u, page, limit) for a user whose map is absent
\* or empty succeeds with total = 0 and empty data, echoing page and limit,
\* for every page and limit.
C11_EmptyUserEmptyPage ==
    [][(Serves("get_user_conversations")
            /\ \A v \in Users : users[last'.user_id][v] = None) =>
        /\ last'.pc = "done"
        /\ last'.status_code = 200
        /\ last'.error = <<>>
        /\ last'.ret = [total |-> 0, page |-> last'.page,
                        limit |-> last'.limit, data |-> <<>>]]_vars

C11_Witness ==
    /\ last.op = "get_user_conversations"
    /\ last.pc = "done"
    /\ \A v \in Users : users[last.user_id][v] = None
    /\ \E x \in Users, v \in Users : users[x][v] # None
    /\ last.page = MaxPage
    /\ last.ret.total = 0 /\ last.ret.data = <<>> /\ last.ret.page = MaxPage

\* C12: every conversation id that has a message row appears in both
\* participants' maps (sender's under the receiver key, receiver's under the
\* sender key), and get_conversation never fails with 'participants not found'
\* on a conversation that has messages.
C12_MessagesHaveParticipants ==
    /\ \A x \in messages :
           /\ users[x.sender_id][x.receiver_id] = x.conversation_id
           /\ users[x.receiver_id][x.sender_id] = x.conversation_id
    /\ (last.op = "get_conversation" /\ last.pc = "error"
            /\ Partition(messages, last.conversation_id) # {})
           => last.error[2] # "Conversation participants not found"

\* the peers in u's map, and the peers at positions first .. last of the map
\* read in key order
Peers(u) == {v \in Users : users[u][v] # None}

PeersAt(u, first, final) ==
    {v \in Peers(u) :
        LET pos == Cardinality({w \in Peers(u) : w <= v})
        IN first <= pos /\ pos <= final}

\* C13: a successful get_user_conversations(u, page, limit) reports total =
\* the number of entries in u's map, and its data holds, in map order, one
\* summary for each entry of the selected slice whose partition has a message,
\* skipping the entries whose partition is empty; so
\* len(data) <= min(limit, max(0, total - (page-1)*limit)).
C13_TotalIsMapSize ==
    (last.op = "get_user_conversations" /\ last.pc = "done") =>
        LET u == last.user_id
            off == (last.page - 1) * last.limit
            data == last.ret.data
            shown == {v \in PeersAt(u, off + 1, off + last.limit) :
                         \E x \in messages : x.conversation_id = users[u][v]}
        IN /\ last.ret.total = Cardinality(Peers(u))
           /\ last.ret.page = last.page /\ last.ret.limit = last.limit
           /\ Len(data) = Cardinality(shown)
           /\ {data[i].user2_id : i \in DOMAIN data} = shown
           /\ \A i \in DOMAIN data :
                  /\ data[i].user1_id = u
                  /\ data[i].id = users[u][data[i].user2_id]
                  /\ \A j \in DOMAIN data : i < j => data[i].user2_id < data[j].user2_id
           /\ Len(data) <= Min(last.limit, Max(0, last.ret.total - off))

\* the bound is strict: after create_or_get_conversation with no message sent
\* the entry is counted and not listed
C13_Witness ==
    /\ last.op = "get_user_conversations" /\ last.pc = "done"
    /\ last.page = 1
    /\ Cardinality(Peers(last.user_id)) = 1
    /\ messages = {}
    /\ last.ret.total = 1
    /\ last.ret.data = <<>>

----------------------------------------------------------------------------
(* Claims on what the operations leave alone, under Spec *)

ReadOps ==
    {"get_conversation_messages", "get_messages_before_timestamp",
     "get_user_conversations", "get_conversation"}

\* C14: across every step of every operation, failed and interleaved ones
\* included, a message row once inserted stays with all its fields, a key once
\* present in a user's map stays present, and a step of one of the four read
\* operations leaves both tables unchanged.
C14_StoredDataGrows ==
    [][/\ \A x \in messages :
              /\ x \in messages'
              /\ \A y \in messages' : SameKey(x, y) => y = x
       /\ \A u \in Users, v \in Users :
              users[u][v] # None => users'[u][v] # None
       /\ (\A p \in Procs : procs'[p] # procs[p] => procs'[p].op \in ReadOps)
              => (users' = users /\ messages' = messages)]_vars

C14_Witness ==
    \E p \in Procs, q \in Procs :
        /\ procs[q].op = "create_message" /\ procs[q].pc = "done"
        /\ procs[q].minted = 1
        /\ procs[p].op = "get_conversation_messages" /\ procs[p].pc = "done"
        /\ procs[p].ret.data = <<procs[q].ret>>
        /\ messages = {procs[q].ret}
        /\ users[procs[q].sender_id][procs[q].receiver_id] # None

----------------------------------------------------------------------------
(* Claims on conversation summaries, under SummarySpec *)

\* summary s of conversation c carries the timestamp and content of the row
\* of partition c that is greatest under (created_at, message_id), which is
\* the single element of get_conversation_messages(c, page=1, limit=1)
SummarisesLatest(s, c) ==
    LET first == ReadMessages(c, 1, 1).data IN
    /\ Len(first) = 1
    /\ first[1].conversation_id = c
    /\ \A x \in messages :
           (x.conversation_id = c /\ x # first[1]) => Newer(first[1], x)
    /\ s.id = c
    /\ s.last_message_at = first[1].created_at
    /\ s.last_message_content = first[1].content

\* C15: the summary returned by get_conversation(c), and every entry of
\* get_user_conversations(u), carries last_message_at and last_message_content
\* of the greatest message of its partition; the participants returned by
\* get_conversation are a pair (user1, user2) with user1's map holding user2 -> c.
C15_SummaryIsLatest ==
    /\ (last.op = "get_conversation" /\ last.pc = "done") =>
           /\ SummarisesLatest(last.ret, last.conversation_id)
           /\ last.ret.user1_id \in Users /\ last.ret.user2_id \in Users
           /\ users[last.ret.user1_id][last.ret.user2_id] = last.conversation_id
    /\ (last.op = "get_user_conversations" /\ last.pc = "done") =>
           \A i \in DOMAIN last.ret.data :
               SummarisesLatest(last.ret.data[i],
                                users[last.user_id][last.ret.data[i].user2_id])

C15_Witness ==
    /\ last.op = "get_conversation" /\ last.pc = "done"
    /\ \E x \in messages, y \in messages :
           /\ x.conversation_id = last.conversation_id
           /\ y.conversation_id = last.conversation_id
           /\ x.created_at < y.created_at
           /\ x.content # y.content
           /\ last.ret.last_message_at = y.created_at
           /\ last.ret.last_message_content = y.content

----------------------------------------------------------------------------
(* Claims on the paths that skip resolution, under SeqSpec *)

\* C16: when the sender's map already holds an entry for the receiver,
\* create_or_get_conversation returns the stored id and writes nothing; and
\* create_message given a conversation_id leaves every user map unchanged and
\* inserts exactly one row, under that id.
C16_FastPathsWriteLittle ==
    [][/\ (Serves("create_or_get_conversation")
               /\ users[last'.sender_id][last'.receiver_id] # None) =>
              /\ last'.pc = "done"
              /\ last'.ret = users[last'.sender_id][last'.receiver_id]
              /\ last'.minted = 0
              /\ users' = users
              /\ messages' = messages
       /\ (Serves("create_message") /\ last'.given # None) =>
              /\ last'.pc = "done"
              /\ last'.minted = 0
              /\ users' = users
              /\ last'.ret \notin messages
              /\ messages' = messages \cup {last'.ret}
              /\ last'.ret.conversation_id = last'.given]_vars

----------------------------------------------------------------------------
(* Claims on resolution in an asymmetric state, under FaultSpec *)

\* no map holds conversation id c
Unreferenced(u, c) == \A x \in Users, y \in Users : u[x][y] # c

\* C17: while u's map holds v -> c and v's map has no entry for u, a
\* create_or_get_conversation(u, v) or create_message(u, v) that succeeds
\* uses c and leaves v's map without the entry, and one from v to u mints an
\* id c2 # c and writes it to both maps, after which no map holds c while the
\* rows of partition c remain.
C17_AsymmetryNeverRepaired ==
    [][(/\ last = Idle
        /\ last'.op \in {"create_or_get_conversation", "create_message"}
        /\ last'.pc = "done"
        /\ last'.given = None) =>
        LET s == last'.sender_id
            r == last'.receiver_id
        IN /\ (users[s][r] # None /\ users[r][s] = None) =>
                  /\ last'.conversation_id = users[s][r]
                  /\ last'.minted = 0
                  /\ users'[r][s] = None
                  /\ users'[s][r] = users[s][r]
           /\ (users[r][s] # None /\ users[s][r] = None) =>
                  /\ last'.minted = 1
                  /\ last'.conversation_id # users[r][s]
                  /\ users'[s][r] = last'.conversation_id
                  /\ users'[r][s] = last'.conversation_id
                  /\ Unreferenced(users', users[r][s])
                  /\ Partition(messages, users[r][s])
                         \subseteq Partition(messages', users[r][s])]_vars

====
